---- MODULE Spec2Model ----
(***************************************************************************)
(* A model of the ConvertIdsToSlugs component (src/src/ConvertIdsToSlugs   *)
(* .tsx): the slug generator, the document scanner and the conversion      *)
(* pipeline, run against an external document store.                       *)
(*                                                                         *)
(* Text is a sequence of one-character strings, so that generateSlug is    *)
(* computed character by character as the code's regular expressions do.   *)
(***************************************************************************)
EXTENDS Integers, Sequences, FiniteSets, TLC

\* ------------------------------------------------------------------ bounds
\* Documents in the store.
NumDocs == 3
\* Largest value Date.now() takes (the first value is 1).
MaxClock == 2
\* Store calls (fetch, commit) that throw in one behaviour.
MaxFaults == 1
\* Conversion runs that complete in one behaviour.
MaxRuns == 2
\* Form edits, host re-renders and Enter key presses in one behaviour.
MaxEdits == 1
\* Largest batchSize the host supplies besides the default.
MaxBatch == 2
\* Longest text handed to generateSlug in SpecGen.
MaxLen == 3

\* ------------------------------------------------------- program constants
DefaultBatchSize == 10
DefaultMaxDocuments == 1000

\* -------------------------------------------------------------------- text
LowerLetters ==
  <<"a","b","c","d","e","f","g","h","i","j","k","l","m",
    "n","o","p","q","r","s","t","u","v","w","x","y","z">>
UpperLetters ==
  <<"A","B","C","D","E","F","G","H","I","J","K","L","M",
    "N","O","P","Q","R","S","T","U","V","W","X","Y","Z">>
DigitChars == <<"0","1","2","3","4","5","6","7","8","9">>

Range(s) == { s[k] : k \in DOMAIN s }

\* \w of a JavaScript regular expression without the u flag.
WordChars == Range(LowerLetters) \cup Range(UpperLetters) \cup Range(DigitChars) \cup {"_"}
\* \s (the members that occur in the model's texts).
Whitespace == {" ", "\t"}

\* String.prototype.toLowerCase, one character.
ToLowerChar(c) ==
  IF c \in Range(UpperLetters)
    THEN LowerLetters[CHOOSE k \in DOMAIN UpperLetters : UpperLetters[k] = c]
    ELSE c

\* String.prototype.toLowerCase
RECURSIVE toLowerCase(_)
toLowerCase(s) ==
  IF s = <<>> THEN <<>> ELSE <<ToLowerChar(Head(s))>> \o toLowerCase(Tail(s))

RECURSIVE DropWhile(_, _)
DropWhile(s, set) ==
  IF s # <<>> /\ Head(s) \in set THEN DropWhile(Tail(s), set) ELSE s

RECURSIVE DropWhileEnd(_, _)
DropWhileEnd(s, set) ==
  IF s # <<>> /\ s[Len(s)] \in set
    THEN DropWhileEnd(SubSeq(s, 1, Len(s) - 1), set)
    ELSE s

\* String.prototype.trim
trim(s) == DropWhileEnd(DropWhile(s, Whitespace), Whitespace)

\* .replace(/[^\w\s-]/g, '')
RemoveSpecial(s) == SelectSeq(s, LAMBDA c : c \in WordChars \cup Whitespace \cup {"-"})

\* .replace(/[\s_-]+/g, '-')
RECURSIVE CollapseSeparators(_)
CollapseSeparators(s) ==
  LET sep == Whitespace \cup {"_", "-"} IN
  IF s = <<>> THEN <<>>
  ELSE IF Head(s) \in sep THEN <<"-">> \o CollapseSeparators(DropWhile(s, sep))
  ELSE <<Head(s)>> \o CollapseSeparators(Tail(s))

\* .replace(/^-+|-+$/g, '')
StripHyphens(s) == DropWhileEnd(DropWhile(s, {"-"}), {"-"})

\* `${slugPrefix}-${slug}`
AddPrefix(prefix, slug) == IF prefix # <<>> THEN prefix \o <<"-">> \o slug ELSE slug

\* `${slug}-${slugSuffix}`
AddSuffix(slug, suffix) == IF suffix # <<>> THEN slug \o <<"-">> \o suffix ELSE slug

\* generateSlug; slugPrefix and slugSuffix are the component state it reads.
\* One step of a method chain: F applied to the value of x.
Then(x, F(_)) == CHOOSE r \in { F(v) : v \in {x} } : TRUE

\* The chain of line 74-79: lowercase, trim and the three replacements.
Normalize(text) ==
  Then(Then(Then(Then(toLowerCase(text), trim), RemoveSpecial),
            CollapseSeparators), StripHyphens)

generateSlug(text, slugPrefix, slugSuffix) ==
  IF text = <<>> THEN <<>>
  ELSE Then(Normalize(text),
            LAMBDA slug : AddSuffix(AddPrefix(slugPrefix, slug), slugSuffix))

\* Number to decimal string, as a template literal prints Date.now().
RECURSIVE NumberToString(_)
NumberToString(n) ==
  IF n < 10 THEN <<DigitChars[n + 1]>>
  ELSE NumberToString(n \div 10) \o <<DigitChars[(n % 10) + 1]>>

\* ------------------------------------------------------------------- state
VARIABLES
  store,              \* the external document store: id -> document
  clock,              \* the last value Date.now() returned
  faults,             \* store calls that have thrown
  edits,              \* form edits and re-renders made
  props,              \* batchSize, dryRun, maxDocuments (host-supplied)
  form,               \* the useState form fields
  isLoading, isScanning, documents, documentsToConvert, message,
  scanPc, scanCfg,    \* the scan in flight and the values its closure captured
  pc, run,            \* the conversion in flight: position, captured values, locals
  commits,            \* patches the store committed in the current run
  progress,           \* progress messages set in the current run
  delivered,          \* calls of onComplete
  lastReport,         \* the report the last call of onComplete handed over
  onErrorCalls,       \* messages handed to onError
  gen                 \* input and output of a stand-alone generateSlug call

vars ==
  <<store, clock, faults, edits, props, form, isLoading, isScanning,
    documents, documentsToConvert, message, scanPc, scanCfg, pc, run,
    commits, progress, delivered, lastReport, onErrorCalls, gen>>

configVars == <<edits, props, form>>
scanVars == <<isScanning, documents, documentsToConvert, scanPc, scanCfg>>
runVars == <<isLoading, pc, run, commits, progress>>
hostVars == <<delivered, lastReport, onErrorCalls>>

Ids == 1..NumDocs
Types == {"post", "page"}
NoText == <<>>

\* The _id of document d.
DocId(d) == <<"d">> \o NumberToString(d)

\* A document as a query returns it.
Snapshot(st, d) ==
  [id |-> d, type |-> st[d].type, title |-> st[d].title,
   name |-> st[d].name, slug |-> st[d].slug]

AllDocs(st) == [d \in Ids |-> Snapshot(st, d)]

Min(a, b) == IF a < b THEN a ELSE b

\* Array.prototype.slice(from, to) for 0 <= from <= to.
slice(s, from, to) == SubSeq(s, from + 1, Min(to, Len(s)))

Contains(s, q) ==
  \E k \in 0..(Len(s) - Len(q)) : SubSeq(s, k + 1, k + Len(q)) = q

\* The query the placeholder of the custom-query box suggests:
\* *[_type == 'post' && defined(title)]
ExampleQuery == "*[_type == 'post' && defined(title)]"

\* The values scanForDocuments reads from its closure.
ScanClosure ==
  [useCustomQuery |-> form.useCustomQuery, customGroqQuery |-> form.customGroqQuery,
   selectedType |-> form.selectedType, searchQuery |-> form.searchQuery,
   maxDocuments |-> props.maxDocuments, sourceField |-> form.sourceField,
   replaceExisting |-> form.replaceExisting]

\* client.fetch(query) of the scan: the store's answer to the query built.
FetchResult(st, cfg) ==
  IF cfg.useCustomQuery /\ cfg.customGroqQuery # ""
    THEN SelectSeq(AllDocs(st), LAMBDA doc : doc.type = "post" /\ doc.title # NoText)
    ELSE slice(
           SelectSeq(AllDocs(st), LAMBDA doc :
             /\ (cfg.selectedType # "" => doc.type = cfg.selectedType)
             /\ (cfg.searchQuery # NoText =>
                   \/ Contains(toLowerCase(doc.title), cfg.searchQuery)
                   \/ Contains(toLowerCase(doc.name), cfg.searchQuery))),
           0, cfg.maxDocuments)

\* doc[sourceField]
Field(doc, f) == IF f = "name" THEN doc.name ELSE doc.title

\* a || b on strings
Or(a, b) == IF a # NoText THEN a ELSE b

\* A filter that never takes a document that has a slug.
NeedsConversion_KeepSlugs(doc, cfg) ==
  /\ Or(Or(Field(doc, cfg.sourceField), doc.title), doc.name) # NoText
  /\ doc.slug = NoText

\* The filter callback of the scan.
NeedsConversion(doc, cfg) ==
  LET hasSlug == doc.slug # NoText
      hasSource == Or(Or(Field(doc, cfg.sourceField), doc.title), doc.name) # NoText
  IN IF cfg.replaceExisting THEN hasSource ELSE hasSource /\ ~hasSlug

\* doc[sourceField] || doc.title || doc.name || doc._id
SourceText(doc, f) == Or(Or(Or(Field(doc, f), doc.title), doc.name), DocId(doc.id))

\* The uniqueness probe: another document of the type with this slug.
ExistingDoc(st, doc, slug) ==
  \E e \in Ids : e # doc.id /\ st[e].type = doc.type /\ st[e].slug = slug

\* `${newSlug}-${Date.now()}`
Disambiguate(slug, now) == slug \o <<"-">> \o NumberToString(now)

\* A run that patches whatever dryRun says.
ShouldPatch_Always(dry) == TRUE

\* if (!dryRun)
ShouldPatch(dry) == ~dry

\* A run that forgets the errors.
PushError_Drop(errors, e) == errors

\* errors.push(...)
PushError(errors, e) == Append(errors, e)

\* A report that lists the newest slug first.
PushSlug_Front(slugs, s) == <<s>> \o slugs

\* slugsGenerated.push(finalSlug)
PushSlug(slugs, s) == Append(slugs, s)

\* A loop that advances one document per batch.
NextBatchStart_One(i, b) == i + 1

\* i += batchSize
NextBatchStart(i, b) == i + b

\* documentsToConvert.slice(i, i + batchSize)
BatchOf(docs, i, b) == slice(docs, i, i + b)

\* -------------------------------------------------------------------- init
\* Initial store contents: document 1 is a titled post, with or without a
\* slug; document 2 a post whose title is a word, only punctuation, or
\* missing; document 3 a titled post or a page that has only a name; any
\* further document a post, titled or not.
InitialDoc(d) ==
  IF d = 1 THEN
    { [type |-> "post", title |-> <<"P">>, name |-> NoText, slug |-> s] :
        s \in {NoText, <<"p">>} }
  ELSE IF d = 2 THEN
    { [type |-> "post", title |-> t, name |-> NoText, slug |-> NoText] :
        t \in {<<"P">>, <<"!">>, NoText} }
  ELSE IF d = 3 THEN
    { [type |-> "post", title |-> <<"p", "!">>, name |-> NoText, slug |-> NoText],
      [type |-> "page", title |-> NoText, name |-> <<"P">>, slug |-> NoText] }
  ELSE
    { [type |-> "post", title |-> t, name |-> NoText, slug |-> NoText] :
        t \in {NoText, <<"P">>} }

InitialStores == { st \in [Ids -> UNION { InitialDoc(d) : d \in Ids }] :
                     \A d \in Ids : st[d] \in InitialDoc(d) }

BatchSizes == (0..MaxBatch) \cup {DefaultBatchSize}
Caps == {NumDocs - 1, DefaultMaxDocuments}
PropsSet == [batchSize : BatchSizes, dryRun : BOOLEAN, maxDocuments : Caps]

\* The useState initial values.
InitialForm ==
  [selectedType |-> "", searchQuery |-> NoText, useCustomQuery |-> FALSE,
   customGroqQuery |-> "", sourceField |-> "title", slugPrefix |-> NoText,
   slugSuffix |-> NoText, replaceExisting |-> FALSE]

Msg(kind, a, b) == [kind |-> kind, a |-> a, b |-> b]

\* No scan in flight: no closure.
NoScan ==
  [useCustomQuery |-> FALSE, customGroqQuery |-> "", selectedType |-> "",
   searchQuery |-> NoText, maxDocuments |-> 0, sourceField |-> "",
   replaceExisting |-> FALSE]

\* No conversion in flight: the locals do not exist.
IdleRun ==
  [docs |-> <<>>, batchSize |-> 0, dryRun |-> FALSE, sourceField |-> "",
   slugPrefix |-> NoText, slugSuffix |-> NoText, i |-> 0, j |-> 0,
   converted |-> 0, errors |-> <<>>, slugsGenerated |-> <<>>,
   newSlug |-> NoText, finalSlug |-> NoText, collided |-> <<>>, store0 |-> <<>>]

\* onComplete has not been called.
NoReport ==
  [converted |-> 0, errors |-> <<>>, slugsGenerated |-> <<>>, docs |-> <<>>,
   dryRun |-> FALSE, sourceField |-> "", slugPrefix |-> NoText,
   slugSuffix |-> NoText, store0 |-> <<>>, collided |-> <<>>]

NoGen == [text |-> NoText, prefix |-> NoText, suffix |-> NoText, done |-> FALSE, out |-> NoText]

InitComponent ==
  /\ clock = 1
  /\ faults = 0
  /\ edits = 0
  /\ form = InitialForm
  /\ isLoading = FALSE
  /\ isScanning = FALSE
  /\ documents = <<>>
  /\ documentsToConvert = <<>>
  /\ message = Msg("", 0, 0)
  /\ scanPc = "idle"
  /\ scanCfg = NoScan
  /\ pc = "idle"
  /\ run = IdleRun
  /\ commits = <<>>
  /\ progress = <<>>
  /\ delivered = 0
  /\ lastReport = NoReport
  /\ onErrorCalls = 0

Init ==
  /\ store \in InitialStores
  /\ props \in PropsSet
  /\ InitComponent
  /\ gen = NoGen

\* --------------------------------------------------------------- the form
\* An event handler runs only while no other JavaScript is running: the
\* conversion is either not started or suspended at an await.
AtAwait == pc \in {"idle", "probe", "patch"}

Edit(field, value) ==
  /\ AtAwait
  /\ edits < MaxEdits
  /\ form[field] # value
  /\ form' = [form EXCEPT ![field] = value]
  /\ edits' = edits + 1
  /\ UNCHANGED <<store, clock, faults, props, message, gen>>
  /\ UNCHANGED <<scanVars, runVars, hostVars>>

setSelectedType == \E v \in {""} \cup Types : Edit("selectedType", v)
setSourceField == \E v \in {"title", "name"} : Edit("sourceField", v)
setSlugPrefix == \E v \in {NoText, <<"b">>} : Edit("slugPrefix", v)
setSlugSuffix == \E v \in {NoText, <<"v">>} : Edit("slugSuffix", v)
setReplaceExisting == \E v \in BOOLEAN : Edit("replaceExisting", v)
setUseCustomQuery == \E v \in BOOLEAN : Edit("useCustomQuery", v)
\* The text area is rendered only while useCustomQuery is checked; typing
\* in it belongs to the edit that opened it.
setCustomGroqQuery ==
  /\ AtAwait
  /\ form.useCustomQuery
  /\ \E v \in {"", ExampleQuery} :
       /\ form.customGroqQuery # v
       /\ form' = [form EXCEPT !.customGroqQuery = v]
  /\ UNCHANGED <<store, clock, faults, edits, props, message, gen>>
  /\ UNCHANGED <<scanVars, runVars, hostVars>>
\* The search input is rendered only while useCustomQuery is not checked.
setSearchQuery ==
  /\ ~form.useCustomQuery
  /\ \E v \in {NoText, <<"p">>} : Edit("searchQuery", v)

\* The host renders the component again with one prop changed.
Rerender ==
  /\ AtAwait
  /\ edits < MaxEdits
  /\ \E p \in PropsSet :
       /\ Cardinality({f \in DOMAIN props : p[f] # props[f]}) = 1
       /\ props' = p
  /\ edits' = edits + 1
  /\ UNCHANGED <<store, clock, faults, form, message, gen>>
  /\ UNCHANGED <<scanVars, runVars, hostVars>>

\* ---------------------------------------------------------------- the scan
\* The Scan for Documents button, disabled while scanning or converting:
\* scanForDocuments up to its await.
ScanStart ==
  /\ ~isScanning /\ ~isLoading
  /\ scanPc = "idle"
  /\ isScanning' = TRUE
  /\ message' = Msg("scanning", 0, 0)
  /\ scanCfg' = ScanClosure
  /\ scanPc' = "fetching"
  /\ UNCHANGED <<store, clock, faults, documents, documentsToConvert, gen>>
  /\ UNCHANGED <<configVars, runVars, hostVars>>

\* Enter in the search input calls scanForDocuments whatever the buttons'
\* state: the one way to scan while a conversion is suspended at an await.
ScanOnEnter ==
  /\ AtAwait
  /\ ~form.useCustomQuery
  /\ isLoading
  /\ edits < MaxEdits
  /\ edits' = edits + 1
  /\ scanPc = "idle"
  /\ isScanning' = TRUE
  /\ message' = Msg("scanning", 0, 0)
  /\ scanCfg' = ScanClosure
  /\ scanPc' = "fetching"
  /\ UNCHANGED <<store, clock, faults, documents, documentsToConvert, gen>>
  /\ UNCHANGED <<props, form, runVars, hostVars>>

\* client.fetch(query) returns.
ScanFetched ==
  /\ AtAwait
  /\ scanPc = "fetching"
  /\ LET docs == FetchResult(store, scanCfg)
         needsConversion == SelectSeq(docs, LAMBDA doc : NeedsConversion(doc, scanCfg))
     IN /\ documents' = docs
        /\ documentsToConvert' = needsConversion
        /\ message' = Msg("found", Len(needsConversion), 0)
  /\ isScanning' = FALSE
  /\ scanPc' = "idle"
  /\ scanCfg' = NoScan
  /\ UNCHANGED <<store, clock, faults, gen>>
  /\ UNCHANGED <<configVars, runVars, hostVars>>

\* client.fetch(query) throws.
ScanFailed ==
  /\ AtAwait
  /\ scanPc = "fetching"
  /\ faults < MaxFaults
  /\ faults' = faults + 1
  /\ message' = Msg("scanError", 0, 0)
  /\ onErrorCalls' = onErrorCalls + 1
  /\ isScanning' = FALSE
  /\ scanPc' = "idle"
  /\ scanCfg' = NoScan
  /\ UNCHANGED <<store, clock, documents, documentsToConvert, delivered, lastReport, gen>>
  /\ UNCHANGED <<configVars, runVars>>

\* ---------------------------------------------------------- the conversion
\* Progress messages kept in the log (a run with batchSize 0 sets the same
\* message without end).
MaxNotes == 4

Err(kind, id, msg) == [kind |-> kind, id |-> id, message |-> msg]

\* The candidate the inner loop is at.
Batch == BatchOf(run.docs, run.i, run.batchSize)
Doc == Batch[run.j]
\* Its position in the candidate list.
Pos == run.i + run.j

\* The Convert button: rendered while there are candidates, disabled while
\* scanning or converting. Runs up to the first loop test.
ConvertStart ==
  /\ pc = "idle"
  /\ ~isLoading /\ ~isScanning
  /\ documentsToConvert # <<>>
  /\ delivered < MaxRuns
  /\ isLoading' = TRUE
  /\ message' = Msg("converting", 0, 0)
  /\ run' = [IdleRun EXCEPT !.docs = documentsToConvert,
                            !.batchSize = props.batchSize,
                            !.dryRun = props.dryRun,
                            !.sourceField = form.sourceField,
                            !.slugPrefix = form.slugPrefix,
                            !.slugSuffix = form.slugSuffix,
                            !.store0 = store]
  /\ pc' = "forBatch"
  /\ UNCHANGED <<store, clock, faults, commits, progress, gen>>
  /\ UNCHANGED <<configVars, scanVars, hostVars>>

\* for (let i = 0; i < documentsToConvert.length; i += batchSize): the test.
LoopTest ==
  /\ pc = "forBatch"
  /\ IF run.i < Len(run.docs)
       THEN pc' = "forDoc" /\ run' = [run EXCEPT !.j = 1]
       ELSE pc' = "finish" /\ run' = run
  /\ UNCHANGED <<store, clock, faults, isLoading, commits, progress, message, gen>>
  /\ UNCHANGED <<configVars, scanVars, hostVars>>

\* for (const doc of batch): the next document, up to the probe's await.
\* The run's locals after it and where the run stands then.
AfterForDoc ==
  IF run.j > Len(Batch) THEN
    [pc |-> "progress", run |-> run]
  ELSE
    LET sourceText == SourceText(Doc, run.sourceField)
        Outcome(newSlug) ==
          IF newSlug = NoText
            THEN [pc |-> "forDoc",
                  run |-> [run EXCEPT
                    !.errors = PushError(@, Err("noSource", Doc.id, "no source text found")),
                    !.j = @ + 1]]
            ELSE [pc |-> "probe", run |-> [run EXCEPT !.newSlug = newSlug]]
    IN Then(generateSlug(sourceText, run.slugPrefix, run.slugSuffix), Outcome)

ForDoc ==
  /\ pc = "forDoc"
  /\ pc' = AfterForDoc.pc
  /\ run' = AfterForDoc.run
  /\ UNCHANGED <<store, clock, faults, isLoading, commits, progress, message, gen>>
  /\ UNCHANGED <<configVars, scanVars, hostVars>>

\* converted++; slugsGenerated.push(finalSlug)
Converted(r, finalSlug) ==
  [r EXCEPT !.converted = @ + 1,
            !.slugsGenerated = PushSlug(@, finalSlug),
            !.newSlug = NoText,
            !.finalSlug = NoText,
            !.j = @ + 1]

\* The catch of the per-document try.
Failed(r, id, msg) ==
  [r EXCEPT !.errors = PushError(@, Err("failed", id, msg)),
            !.newSlug = NoText,
            !.finalSlug = NoText,
            !.collided = SubSeq(@, 1, r.converted),
            !.j = @ + 1]

\* The uniqueness probe returns; Date.now() is read on a collision.
ProbeReturn ==
  /\ pc = "probe"
  /\ LET existingDoc == ExistingDoc(store, Doc, run.newSlug) IN
     \E now \in clock..MaxClock :
       /\ (~existingDoc => now = clock)
       /\ clock' = now
       /\ LET finalSlug == IF existingDoc THEN Disambiguate(run.newSlug, now)
                                          ELSE run.newSlug
              decided == [run EXCEPT !.finalSlug = finalSlug,
                                     !.collided = Append(@, existingDoc)]
          IN IF ShouldPatch(run.dryRun)
               THEN run' = decided /\ pc' = "patch"
               ELSE run' = Converted(decided, finalSlug) /\ pc' = "forDoc"
  /\ UNCHANGED <<store, faults, isLoading, commits, progress, message, gen>>
  /\ UNCHANGED <<configVars, scanVars, hostVars>>

\* The uniqueness probe throws.
ProbeThrow ==
  /\ pc = "probe"
  /\ faults < MaxFaults
  /\ faults' = faults + 1
  /\ run' = Failed(run, Doc.id, "fetch failed")
  /\ pc' = "forDoc"
  /\ UNCHANGED <<store, clock, isLoading, commits, progress, message, gen>>
  /\ UNCHANGED <<configVars, scanVars, hostVars>>

\* client.patch(doc._id).set({[slugField]: {_type: 'slug', current: finalSlug}}).commit()
PatchCommit ==
  /\ pc = "patch"
  /\ store' = [store EXCEPT ![Doc.id].slug = run.finalSlug]
  /\ commits' = Append(commits, [id |-> Doc.id, slug |-> run.finalSlug, pos |-> Pos])
  /\ run' = Converted(run, run.finalSlug)
  /\ pc' = "forDoc"
  /\ UNCHANGED <<clock, faults, isLoading, progress, message, gen>>
  /\ UNCHANGED <<configVars, scanVars, hostVars>>

\* The commit throws: the store is left as it was.
PatchThrow ==
  /\ pc = "patch"
  /\ faults < MaxFaults
  /\ faults' = faults + 1
  /\ run' = Failed(run, Doc.id, "commit failed")
  /\ pc' = "forDoc"
  /\ UNCHANGED <<store, clock, isLoading, commits, progress, message, gen>>
  /\ UNCHANGED <<configVars, scanVars, hostVars>>

\* setMessage(`... ${converted}/${documentsToConvert.length} documents...`)
\* after the batch, and the loop's i += batchSize.
Progress ==
  /\ pc = "progress"
  /\ message' = Msg("progress", run.converted, Len(run.docs))
  /\ progress' = IF Len(progress) < MaxNotes
                   THEN Append(progress,
                          [converted |-> run.converted, total |-> Len(run.docs),
                           failed |-> Len(run.errors)])
                   ELSE progress
  /\ run' = [run EXCEPT !.i = NextBatchStart(@, run.batchSize), !.j = 0]
  /\ pc' = "forBatch"
  /\ UNCHANGED <<store, clock, faults, isLoading, commits, gen>>
  /\ UNCHANGED <<configVars, scanVars, hostVars>>

\* The report handed to onComplete, with the run it closes.
Report ==
  [converted |-> run.converted, errors |-> run.errors,
   slugsGenerated |-> run.slugsGenerated,
   docs |-> run.docs, dryRun |-> run.dryRun,
   sourceField |-> run.sourceField, slugPrefix |-> run.slugPrefix,
   slugSuffix |-> run.slugSuffix, store0 |-> run.store0,
   collided |-> run.collided]

\* After the loop: the result, onComplete(result), finally setIsLoading(false).
Finish ==
  /\ pc = "finish"
  /\ message' = Msg("complete", run.converted, 0)
  /\ delivered' = delivered + 1
  /\ lastReport' = Report
  /\ isLoading' = FALSE
  /\ pc' = "idle"
  /\ run' = IdleRun
  /\ commits' = <<>>
  /\ progress' = <<>>
  /\ UNCHANGED <<store, clock, faults, onErrorCalls, gen>>
  /\ UNCHANGED <<configVars, scanVars>>

\* The steps of a conversion in flight.
RunStep ==
  \/ LoopTest
  \/ ForDoc
  \/ ProbeReturn
  \/ ProbeThrow
  \/ PatchCommit
  \/ PatchThrow
  \/ Progress
  \/ Finish

Next ==
  \/ setSelectedType
  \/ setSourceField
  \/ setSlugPrefix
  \/ setSlugSuffix
  \/ setReplaceExisting
  \/ setUseCustomQuery
  \/ setCustomGroqQuery
  \/ setSearchQuery
  \/ Rerender
  \/ ScanStart
  \/ ScanOnEnter
  \/ ScanFetched
  \/ ScanFailed
  \/ ConvertStart
  \/ RunStep

Spec == Init /\ [][Next]_vars

\* ------------------------------------------------- the generator on its own
GenAlphabet == {"P", "p", "1", " ", "_", "-", "!"}

RECURSIVE Texts(_)
Texts(n) ==
  IF n = 0 THEN {<<>>}
  ELSE Texts(n - 1) \cup { Append(t, c) : t \in { u \in Texts(n - 1) : Len(u) = n - 1 },
                                          c \in GenAlphabet }

InitGen ==
  /\ store = CHOOSE st \in InitialStores : TRUE
  /\ props = [batchSize |-> DefaultBatchSize, dryRun |-> FALSE,
              maxDocuments |-> DefaultMaxDocuments]
  /\ InitComponent
  /\ gen \in [text : Texts(MaxLen), prefix : {NoText, <<"b">>},
               suffix : {NoText, <<"v">>}, done : {FALSE}, out : {NoText}]

\* One call generateSlug(text) with slugPrefix and slugSuffix as configured.
Generate ==
  /\ ~gen.done
  /\ gen' = [gen EXCEPT !.done = TRUE,
                        !.out = generateSlug(gen.text, gen.prefix, gen.suffix)]
  /\ UNCHANGED <<store, clock, faults, message>>
  /\ UNCHANGED <<configVars, scanVars, runVars, hostVars>>

NextGen == Generate

SpecGen == InitGen /\ [][NextGen]_vars

\* Each store call returns or throws, and the JavaScript thread keeps running.
ProbeStep == ProbeReturn \/ ProbeThrow
PatchStep == PatchCommit \/ PatchThrow
FairSpec ==
  /\ Spec
  /\ WF_vars(LoopTest)
  /\ WF_vars(ForDoc)
  /\ WF_vars(ProbeStep)
  /\ WF_vars(PatchStep)
  /\ WF_vars(Progress)
  /\ WF_vars(Finish)

\* ================================================================== claims
InFlight == pc # "idle"
StoreFailures(errors) == { k \in DOMAIN errors : errors[k].kind = "failed" }
Ceil(n, b) == (n + b - 1) \div b

\* The candidates whose outcome has been recorded, by the loop's position.
Processed ==
  CASE pc \in {"forDoc", "probe", "patch"} -> run.i + run.j - 1
    [] pc = "progress" -> run.i + Len(Batch)
    [] pc = "forBatch" -> Min(run.i, Len(run.docs))
    [] pc = "finish" -> Len(run.docs)
    [] OTHER -> 0

\* The store commits a patch.
CommitStep == pc = "patch" /\ Len(commits') = Len(commits) + 1

\* C1: at the moment a patch commits finalSlug for a document, no other
\* document of the same type has that slug.
C1_CommittedSlugUnique ==
  [][CommitStep =>
       \A e \in Ids :
         (e # Doc.id /\ store[e].type = store[Doc.id].type)
           => store[e].slug # run.finalSlug]_vars

\* C2: during a dry run no step changes the store and no patch is issued.
C2_DryRunNeverMutates ==
  [][(InFlight /\ run.dryRun) =>
       (store' = store /\ pc' # "patch" /\ commits' = <<>>)]_vars

\* A dry run has gone through its candidates, one of them after a collision,
\* and is about to hand over its report.
C2_Witness ==
  /\ pc = "finish"
  /\ run.dryRun
  /\ run.converted >= 2
  /\ \E k \in DOMAIN run.collided : run.collided[k]
  /\ store = run.store0

\* C3: a real run that follows a dry run on the same candidates, the same
\* configuration and the same store contents, neither with a store error,
\* ends with the converted count and the base-or-disambiguated decisions
\* the dry run reported.
C3_DryRunReportsRealRun ==
  ( /\ pc = "finish"
    /\ ~run.dryRun
    /\ delivered > 0
    /\ lastReport.dryRun
    /\ lastReport.docs = run.docs
    /\ lastReport.store0 = run.store0
    /\ lastReport.sourceField = run.sourceField
    /\ lastReport.slugPrefix = run.slugPrefix
    /\ lastReport.slugSuffix = run.slugSuffix
    /\ StoreFailures(run.errors) = {}
    /\ StoreFailures(lastReport.errors) = {} )
  => ( /\ lastReport.converted = run.converted
       /\ Len(lastReport.slugsGenerated) = Len(run.slugsGenerated)
       /\ lastReport.collided = run.collided )

\* C4: every candidate processed has exactly one outcome, a conversion or
\* an error entry, whatever failed; the report's counts add up to the number
\* of candidates; and onError is called for no per-document error.
C4_OneOutcomePerCandidate ==
  /\ InFlight =>
       /\ run.converted + Len(run.errors) = Processed
       /\ run.converted = Len(run.slugsGenerated)
       /\ onErrorCalls + Cardinality(StoreFailures(run.errors)) <= faults
  /\ delivered > 0 =>
       /\ lastReport.converted + Len(lastReport.errors) = Len(lastReport.docs)
       /\ lastReport.converted = Len(lastReport.slugsGenerated)

\* A report was delivered for a run in which a store call threw for one
\* candidate, the derived slug of another was empty, and a third converted.
C4_Witness ==
  /\ delivered > 0
  /\ StoreFailures(lastReport.errors) # {}
  /\ \E k \in DOMAIN lastReport.errors : lastReport.errors[k].kind = "noSource"
  /\ lastReport.converted >= 1

\* C6: with batchSize b >= 1 and n candidates, the k-th progress message is
\* set when exactly min(k*b, n) candidates have their outcome, carries the
\* converted count of that moment and the total n, and ceil(n/b) messages
\* have been set when the loop ends.
C6_ProgressFollowsChunks ==
  (InFlight /\ run.batchSize >= 1) =>
    LET b == run.batchSize
        n == Len(run.docs)
    IN /\ \A k \in DOMAIN progress :
            /\ progress[k].converted + progress[k].failed = Min(k * b, n)
            /\ progress[k].total = n
            /\ progress[k].converted <= run.converted
       /\ Min(Len(progress) * b, n) <= Processed
       /\ Processed <= Min((Len(progress) + 1) * b, n)
       /\ pc = "finish" => Len(progress) = Ceil(n, b)

\* Three candidates in batches of two: messages after the second and the
\* third candidate.
C6_Witness ==
  /\ pc = "finish"
  /\ run.batchSize = 2
  /\ Len(run.docs) = 3
  /\ Len(progress) = 2
  /\ progress[1].converted + progress[1].failed = 2

\* The position of a document in the candidate list.
PosOf(id) == CHOOSE q \in DOMAIN run.docs : run.docs[q].id = id

\* C7: candidates are processed one at a time in list order: when a store
\* call for a candidate is pending every earlier candidate has its outcome
\* and no later one has; commits reach the store in candidate order; and
\* slugsGenerated and errors list their outcomes in that order, the j-th
\* slug being the one committed by the j-th commit.
C7_InCandidateOrder ==
  InFlight =>
    /\ \A j, k \in DOMAIN commits : j < k => commits[j].pos < commits[k].pos
    /\ \A j \in DOMAIN commits : run.docs[commits[j].pos].id = commits[j].id
    /\ ~run.dryRun =>
         /\ Len(commits) = Len(run.slugsGenerated)
         /\ \A j \in DOMAIN commits : commits[j].slug = run.slugsGenerated[j]
    /\ \A j, k \in DOMAIN run.errors :
         j < k => PosOf(run.errors[j].id) < PosOf(run.errors[k].id)
    /\ \A j \in DOMAIN commits : commits[j].pos <= Processed
    /\ \A j \in DOMAIN run.errors : PosOf(run.errors[j].id) <= Processed
    /\ pc \in {"probe", "patch"} => Pos = Processed + 1

\* A real run ends with two commits of different slugs and an error.
C7_Witness ==
  /\ pc = "finish"
  /\ ~run.dryRun
  /\ Len(commits) = 2
  /\ commits[1].slug # commits[2].slug
  /\ Len(run.errors) = 1

\* The Conversion Candidate rule.
HasSourceText(doc, sourceField) ==
  Field(doc, sourceField) # NoText \/ doc.title # NoText \/ doc.name # NoText
IsCandidate(doc, cfg) ==
  HasSourceText(doc, cfg.sourceField) /\ (cfg.replaceExisting \/ doc.slug = NoText)

\* A scan ends with its fetch answered.
ScanSucceeds == scanPc = "fetching" /\ scanPc' = "idle" /\ message'.kind = "found"

\* C8: a scan that succeeds leaves as candidates exactly the fetched
\* documents the Conversion Candidate rule selects, in fetched order: none
\* with a slug unless replaceExisting, every one with source text if
\* replaceExisting.
C8_ScanClassifies ==
  [][ScanSucceeds =>
       /\ documents' = FetchResult(store, scanCfg)
       /\ documentsToConvert' =
            SelectSeq(documents', LAMBDA doc : IsCandidate(doc, scanCfg))
       /\ ~scanCfg.replaceExisting =>
            \A k \in DOMAIN documentsToConvert' : documentsToConvert'[k].slug = NoText
       /\ scanCfg.replaceExisting =>
            \A k \in DOMAIN documents' :
              HasSourceText(documents'[k], scanCfg.sourceField)
                => \E q \in DOMAIN documentsToConvert' :
                     documentsToConvert'[q] = documents'[k]]_vars

\* A scan with replaceExisting found a document that has a slug and left
\* out one that has no source text.
C8_Witness ==
  /\ message.kind = "found"
  /\ form.replaceExisting
  /\ \E k \in DOMAIN documentsToConvert : documentsToConvert[k].slug # NoText
  /\ Len(documentsToConvert) < Len(documents)

\* C5: after a scan that failed the candidate list is empty.
C5_FailedScanYieldsNoCandidates ==
  message.kind = "scanError" => documentsToConvert = <<>>

\* C9: the output of generateSlug holds only lowercase letters, digits and
\* single hyphens, and neither starts nor ends with a hyphen.
SlugChars == Range(LowerLetters) \cup Range(DigitChars) \cup {"-"}
WellFormedSlug(s) ==
  /\ \A k \in DOMAIN s : s[k] \in SlugChars
  /\ \A k \in 1..(Len(s) - 1) : ~(s[k] = "-" /\ s[k + 1] = "-")
  /\ s # <<>> => (s[1] # "-" /\ s[Len(s)] # "-")
C9_SlugWellFormed == gen.done => WellFormedSlug(gen.out)

\* C10: a conversion run that has started ends: the loading flag is reset.
C10_ConversionTerminates == isLoading ~> ~isLoading

====
